---- MODULE Spec2Model ----
(***************************************************************************)
(* BareEmitter (src/unnamed/part_000): a synchronous event emitter.        *)
(*                                                                         *)
(* The state is the private `events` object plus the JavaScript call stack *)
(* of the calls in progress: emit frames (iterating a copy of a listener   *)
(* array), onceWrapper frames (between `listener(...args)` and the         *)
(* `this.off`) and frames of user listeners.  A user listener is arbitrary *)
(* code: while it runs it may call on/off/once/emit, return or throw.      *)
(***************************************************************************)
EXTENDS Integers, Sequences, FiniteSets, TLC

\* ---------------------------------------------------------------- bounds
MaxCalls == 4       \* API calls (on/off/once/emit) made in one behaviour
MaxLen   == 3       \* listeners held in one event's array
MaxOnce  == 2       \* onceWrapper closures created in one behaviour

\* ---------------------------------------------------------------- inputs
\* Event names passed by callers.  "constructor" is a string like any other;
\* it is also the name of a property every plain object inherits.
EventNames == {"a", "b", "constructor"}
\* User functions passed as listeners.
Fns == {"f", "g"}
\* Argument lists passed to emit.
ArgLists == {<<>>, <<1, 2>>}

\* ---------------------------------------------------------------- values
\* A Listener value.  Function identity is the whole record: a user function
\* is identified by its name, a onceWrapper closure by the number of the once
\* call that created it (id > 0), with the eventName and listener it closes over.
Fn(f) == [id |-> 0, fn |-> f, ev |-> ""]
onceWrapper(n, e, f) == [id |-> n, fn |-> f, ev |-> e]
\* The omitted `listener?` argument of off.
Undefined == [id |-> -1, fn |-> "", ev |-> ""]
IsWrapper(h) == h.id > 0

\* `events = {}` is a plain object: reading a key it does not own falls through
\* to Object.prototype.  ProtoNames are the names found there (among EventNames).
ProtoNames == {"constructor"}
\* `.length` of the inherited value: Object.prototype.constructor is the function
\* Object, whose length is 1.
ProtoLength(e) == 1

VARIABLES
    events,     \* own properties of this.events: a function from names to sequences
    stack,      \* call stack, outermost first
    nextId,     \* number of the next onceWrapper closure
    calls,      \* API calls made so far
    last,       \* the API call that ended last, as its caller saw it
    fired,      \* fired[n]: how many times onceWrapper n has been entered
    onCount,    \* onCount[e][f]: on(e, f) calls completed since f was last removed from e
    ref         \* registry of the reference emitter run side by side (see refOff)

vars == <<events, stack, nextId, calls, last, fired, onCount, ref>>

EmptyEvents == [e \in {} |-> <<>>]

HasOwn(ev, e) == e \in DOMAIN ev
\* Truthiness of `this.events[eventName]`: an own array (even an empty one) and an
\* inherited object are truthy, undefined is not.
Truthy(ev, e) == HasOwn(ev, e) \/ e \in ProtoNames
Put(ev, e, s) == [x \in (DOMAIN ev) \cup {e} |-> IF x = e THEN s ELSE ev[x]]
\* A delete that drops every key: this.events = {}.
DeleteAll(ev, e) == [x \in {} |-> <<>>]
Delete(ev, e) == [x \in (DOMAIN ev) \ {e} |-> ev[x]]
\* The registered listeners of e: the own array, or none.
Registered(ev, e) == IF HasOwn(ev, e) THEN ev[e] ELSE <<>>

Range(s) == {s[k] : k \in 1..Len(s)}
Count(s, h) == Cardinality({k \in 1..Len(s) : s[k] = h})

\* ------------------------------------------------------------ the methods
\* Each method is a function of the events object: the object it leaves and what
\* its caller sees ("void", "true", "false", or "TypeError" for an exception
\* raised by the method's own statements).
Result(ev, r) == [events |-> ev, ret |-> r]

\* A push that skips a listener the array already holds.
pushUnique(s, listener) == IF listener \in Range(s) THEN s ELSE Append(s, listener)

\* this.events[eventName].push(listener)
push(s, listener) == Append(s, listener)

\* A removal that stops at the first match (indexOf and splice).
filterFirst(s, listener) ==
    IF listener \notin Range(s) THEN s
    ELSE LET k == CHOOSE j \in 1..Len(s) : s[j] = listener /\ \A m \in 1..(j - 1) : s[m] # listener
         IN  SubSeq(s, 1, k - 1) \o SubSeq(s, k + 1, Len(s))

\* A removal that compares the user function behind a listener, so that a wrapper
\* and the function it wraps count as the same listener.
filterByOriginal(s, listener) == SelectSeq(s, LAMBDA fn : fn.fn # listener.fn)

\* this.events[eventName].filter(fn => fn !== listener)
filter(s, listener) == SelectSeq(s, LAMBDA fn : fn # listener)

\* on(eventName, listener), lines 35-38.  Line 36 creates the array only when the
\* lookup is falsy; line 37 calls .push on whatever the lookup yields, and an
\* inherited non-array has no push.
on(ev, eventName, listener) ==
    LET ev1 == IF ~Truthy(ev, eventName) THEN Put(ev, eventName, <<>>) ELSE ev
    IN  IF HasOwn(ev1, eventName)
        THEN Result(Put(ev1, eventName, push(ev1[eventName], listener)), "void")
        ELSE Result(ev1, "TypeError")

\* off(eventName, listener?), lines 53-60.  `delete` of a key the object does not
\* own does nothing; .filter on an inherited non-array does not exist.
off(ev, eventName, listener) ==
    IF ~Truthy(ev, eventName) THEN Result(ev, "void")
    ELSE IF listener # Undefined
         THEN IF HasOwn(ev, eventName)
              THEN Result(Put(ev, eventName, filter(ev[eventName], listener)), "void")
              ELSE Result(ev, "TypeError")
         ELSE Result(Delete(ev, eventName), "void")

\* The guard without the length test of line 96.
emitGuardNoLength(ev, eventName) ==
    IF ~Truthy(ev, eventName) THEN "false"
    ELSE IF HasOwn(ev, eventName) THEN "iterate" ELSE "TypeError"

\* The reference emitter: the same methods, except that off drops the key when the
\* removal leaves its sequence empty.
refOff(ev, eventName, listener) ==
    LET r == off(ev, eventName, listener)
    IN  IF HasOwn(r.events, eventName) /\ r.events[eventName] = <<>>
        THEN Result(Delete(r.events, eventName), r.ret)
        ELSE r

\* emit, lines 95-96: the guard before the iteration.  "iterate" when line 98 is
\* reached with an array, "TypeError" when it is reached with an inherited value,
\* which cannot be spread.
emitGuard(ev, eventName) ==
    IF ~Truthy(ev, eventName) THEN "false"
    ELSE IF HasOwn(ev, eventName)
         THEN IF Len(ev[eventName]) = 0 THEN "false" ELSE "iterate"
         ELSE IF ProtoLength(eventName) = 0 THEN "false" ELSE "TypeError"

\* [...listeners], line 98: the copy that forEach walks.
Snapshot(listeners) == listeners

\* A walk over whatever is registered at each step instead of over the copy.
IteratedLive(fr, ev) == Registered(ev, fr.ev)

\* The array an emit frame walks, first to last: forEach runs over the copy, not
\* over this.events[eventName].
Iterated(fr, ev) == fr.listeners

\* The argument array handed on as one argument: fn(args).
SpreadAsArray(args) == <<args>>

\* fn(...args), line 98, and listener(...args), line 76: the arguments handed on.
Spread(args) == args

\* ------------------------------------------------------------- call stack
Handles(inv) == [j \in 1..Len(inv) |-> inv[j].h]
WrapperIds(s) == {s[k].id : k \in {j \in 1..Len(s) : IsWrapper(s[j])}}

\* An emit call.  listeners and i are the copy and forEach's position in it; the
\* other fields record the call's history for the properties below: the array
\* registered when the call began, the calls made to listeners so far, the
\* handles registered and removed for ev meanwhile, and what was true at the start
\* (on counts, whether off(ev) was the call just before, wrappers already fired).
EmitFrame(e, args, ev) ==
    [kind |-> "emit", ev |-> e, args |-> args,
     listeners |-> Snapshot(Registered(ev, e)), i |-> 1,
     start |-> Registered(ev, e), inv |-> <<>>, added |-> {}, removed |-> {},
     on0 |-> onCount[e],
     cleared |-> last.op = "off" /\ last.l = Undefined /\ last.ev = e,
     stale |-> {n \in WrapperIds(Registered(ev, e)) : fired[n] > 0},
     \* what the reference emitter does with the same call
     refRet |-> emitGuard(ref, e), refStart |-> Snapshot(Registered(ref, e))]
WrapperFrame(h, args) == [kind |-> "onceWrapper", h |-> h, args |-> args]
FnFrame(f, args) == [kind |-> "fn", h |-> Fn(f), args |-> args]

Top == stack[Len(stack)]
Pop(st) == SubSeq(st, 1, Len(st) - 1)
\* User code is running: the program that owns the emitter, or a user listener.
CallerRuns == IF stack = <<>> THEN TRUE ELSE Top.kind = "fn"
CanCall == CallerRuns /\ calls < MaxCalls

NoFrame ==
    [start |-> <<>>, inv |-> <<>>, on0 |-> [f \in Fns |-> 0], cleared |-> FALSE,
     refRet |-> "void", refStart |-> <<>>]
NoCall ==
    [op |-> "none", ev |-> "", l |-> Undefined, args |-> <<>>, ret |-> "void",
     before |-> EmptyEvents, start |-> <<>>, inv |-> <<>>,
     on0 |-> [f \in Fns |-> 0], cleared |-> FALSE,
     refRet |-> "void", refStart |-> <<>>]
\* The record of a call that has ended: what was called, how it ended, the events
\* object it found and, for emit, the history of its frame.
Ended(op, e, l, args, ret, before, fr) ==
    [op |-> op, ev |-> e, l |-> l, args |-> args, ret |-> ret, before |-> before,
     start |-> fr.start, inv |-> fr.inv, on0 |-> fr.on0, cleared |-> fr.cleared,
     refRet |-> fr.refRet, refStart |-> fr.refStart]

\* Emit frames in progress for e learn which handles came and went meanwhile.
Note(st, e, ev1, ev2) ==
    [k \in 1..Len(st) |->
        IF st[k].kind = "emit" /\ st[k].ev = e
        THEN [st[k] EXCEPT
                !.added = @ \cup {h \in Range(Registered(ev2, e)) :
                                  Count(Registered(ev2, e), h) > Count(Registered(ev1, e), h)},
                !.removed = @ \cup (Range(Registered(ev1, e)) \ Range(Registered(ev2, e)))]
        ELSE st[k]]

\* on counts after off(e, l) or off(e).
Forget(oc, e, l) ==
    [oc EXCEPT ![e] = [f \in Fns |-> IF l = Undefined \/ l = Fn(f) THEN 0 ELSE oc[e][f]]]

Init ==
    /\ events = EmptyEvents
    /\ stack = <<>>
    /\ nextId = 1
    /\ calls = 0
    /\ last = NoCall
    /\ fired = [n \in 1..(MaxOnce + 1) |-> 0]
    /\ onCount = [e \in EventNames |-> [f \in Fns |-> 0]]
    /\ ref = EmptyEvents

\* A caller calls on(e, Fn(f)).
CallOn(e, f) ==
    /\ CanCall
    /\ Len(Registered(events, e)) < MaxLen
    /\ LET r == on(events, e, Fn(f)) IN
       /\ events' = r.events
       /\ stack' = Note(stack, e, events, r.events)
       /\ last' = [Ended("on", e, Fn(f), <<>>, r.ret, events, NoFrame)
                      EXCEPT !.refRet = on(ref, e, Fn(f)).ret]
       /\ ref' = on(ref, e, Fn(f)).events
       /\ onCount' = IF r.ret = "void" THEN [onCount EXCEPT ![e][f] = @ + 1] ELSE onCount
    /\ calls' = calls + 1
    /\ UNCHANGED <<nextId, fired>>

\* A caller calls off(e, Fn(f)), or off(e) when l is Undefined.
CallOff(e, l) ==
    /\ CanCall
    /\ LET r == off(events, e, l) IN
       /\ events' = r.events
       /\ stack' = Note(stack, e, events, r.events)
       /\ last' = [Ended("off", e, l, <<>>, r.ret, events, NoFrame)
                      EXCEPT !.refRet = refOff(ref, e, l).ret]
       /\ ref' = refOff(ref, e, l).events
       /\ onCount' = IF r.ret = "void" THEN Forget(onCount, e, l) ELSE onCount
    /\ calls' = calls + 1
    /\ UNCHANGED <<nextId, fired>>

\* A caller calls once(e, Fn(f)), lines 74-80: a new closure, then on.
CallOnce(e, f) ==
    /\ CanCall
    /\ nextId <= MaxOnce
    /\ Len(Registered(events, e)) < MaxLen
    /\ LET r == on(events, e, onceWrapper(nextId, e, f)) IN
       /\ events' = r.events
       /\ stack' = Note(stack, e, events, r.events)
       /\ last' = [Ended("once", e, Fn(f), <<>>, r.ret, events, NoFrame)
                      EXCEPT !.refRet = on(ref, e, onceWrapper(nextId, e, f)).ret]
       /\ ref' = on(ref, e, onceWrapper(nextId, e, f)).events
    /\ nextId' = nextId + 1
    /\ calls' = calls + 1
    /\ UNCHANGED <<fired, onCount>>

\* A caller calls emit(e, ...args), lines 95-96: returns false, fails, or starts
\* the iteration of line 98.
CallEmit(e, args) ==
    /\ CanCall
    /\ LET g == emitGuard(events, e) IN
       IF g = "iterate"
       THEN /\ stack' = Append(stack, EmitFrame(e, args, events))
            /\ UNCHANGED last
       ELSE /\ stack' = stack
            /\ last' = Ended("emit", e, Undefined, args, g, events,
                             EmitFrame(e, args, events))
    /\ calls' = calls + 1
    /\ UNCHANGED <<events, nextId, fired, onCount, ref>>

\* forEach calls the next listener of the copy.  A onceWrapper starts by calling
\* the listener it closes over (line 76), so the user function's frame is on top.
Invoke ==
    /\ stack # <<>> /\ Top.kind = "emit" /\ Top.i <= Len(Iterated(Top, events))
    /\ LET h  == Iterated(Top, events)[Top.i]
           fr == [Top EXCEPT !.i = @ + 1,
                             !.inv = Append(@, [h |-> h, args |-> Spread(Top.args),
                                                reg |-> h \in Range(Registered(events, Top.ev))])]
       IN  IF IsWrapper(h)
           THEN /\ stack' = Pop(stack) \o <<fr, WrapperFrame(h, Spread(Top.args)),
                                            FnFrame(h.fn, Spread(Spread(Top.args)))>>
                /\ fired' = [fired EXCEPT ![h.id] = @ + 1]
           ELSE /\ stack' = Pop(stack) \o <<fr, FnFrame(h.fn, Spread(Top.args))>>
                /\ UNCHANGED fired
    /\ UNCHANGED <<events, nextId, calls, last, onCount, ref>>

\* forEach is through: emit returns true (line 99).
EmitReturn ==
    /\ stack # <<>> /\ Top.kind = "emit" /\ Top.i > Len(Iterated(Top, events))
    /\ stack' = Pop(stack)
    /\ last' = Ended("emit", Top.ev, Undefined, Top.args, "true", events, Top)
    /\ UNCHANGED <<events, nextId, calls, fired, onCount, ref>>

\* A user listener returns.
Return ==
    /\ stack # <<>> /\ Top.kind = "fn"
    /\ stack' = Pop(stack)
    /\ UNCHANGED <<events, nextId, calls, last, fired, onCount, ref>>

\* The listener of a onceWrapper has returned: this.off(eventName, onceWrapper),
\* line 77, and the wrapper returns.
OnceWrapperOff ==
    /\ stack # <<>> /\ Top.kind = "onceWrapper"
    /\ LET r == off(events, Top.h.ev, Top.h) IN
       /\ events' = r.events
       /\ stack' = Note(Pop(stack), Top.h.ev, events, r.events)
       /\ last' = [Ended("off", Top.h.ev, Top.h, <<>>, r.ret, events, NoFrame)
                      EXCEPT !.refRet = refOff(ref, Top.h.ev, Top.h).ret]
       /\ ref' = refOff(ref, Top.h.ev, Top.h).events
    /\ UNCHANGED <<nextId, calls, fired, onCount>>

\* The deepest user frame below the top one, 0 if none: where an exception thrown
\* by the top frame lands.  Neither emit nor onceWrapper has a try.
Handler(st) ==
    LET below == {k \in 1..(Len(st) - 1) : st[k].kind = "fn"}
    IN  IF below = {} THEN 0 ELSE CHOOSE k \in below : \A j \in below : j <= k

\* An emit that catches what its listener throws and goes on with the next one.
UnwoundToEmit(st) == Pop(st)

\* The stack after the top frame has thrown: everything above the handler is gone.
Unwound(st) == SubSeq(st, 1, Handler(st))

\* A user listener throws.  Every emit and onceWrapper between it and the nearest
\* user frame is abandoned; that user code (or the program) sees its emit call fail.
Throw ==
    /\ stack # <<>> /\ Top.kind = "fn"
    /\ LET fr == stack[Handler(stack) + 1]
       IN  /\ stack' = Unwound(stack)
           /\ last' = Ended("emit", fr.ev, Undefined, fr.args, "threw", events, fr)
    /\ UNCHANGED <<events, nextId, calls, fired, onCount, ref>>

Next ==
    \/ \E e \in EventNames, f \in Fns : CallOn(e, f)
    \/ \E e \in EventNames, l \in {Fn(f) : f \in Fns} \cup {Undefined} : CallOff(e, l)
    \/ \E e \in EventNames, f \in Fns : CallOnce(e, f)
    \/ \E e \in EventNames, args \in ArgLists : CallEmit(e, args)
    \/ Invoke
    \/ EmitReturn
    \/ Return
    \/ OnceWrapperOff
    \/ Throw

Spec == Init /\ [][Next]_vars

TypeOK ==
    /\ DOMAIN events \subseteq EventNames
    /\ calls \in 0..MaxCalls
    /\ nextId \in 1..(MaxOnce + 1)

\* ------------------------------------------------------------- properties
EmitFrames == {k \in 1..Len(stack) : stack[k].kind = "emit"}
EmitEnded == last.op = "emit"
Returned(r) == EmitEnded /\ last.ret = r

\* The calls a frame has made are the first listeners of `reg`, in order, one call
\* per registration, each with exactly `args`.
WalkedInOrder(inv, reg, args) ==
    /\ Len(inv) <= Len(reg)
    /\ \A j \in 1..Len(inv) : inv[j].h = reg[j] /\ inv[j].args = args

\* The frames above emit frame k are the call it has just made, with its arguments:
\* the user function, or the onceWrapper and under it the wrapped user function.
CalleeOf(k) ==
    LET fr == stack[k]
        c  == fr.inv[Len(fr.inv)]
    IN  /\ fr.inv # <<>>
        /\ IF IsWrapper(c.h)
           THEN /\ stack[k + 1] = WrapperFrame(c.h, fr.args)
                /\ k + 1 < Len(stack) => stack[k + 2] = FnFrame(c.h.fn, fr.args)
           ELSE stack[k + 1] = FnFrame(c.h.fn, fr.args)

\* C1: an emit(e, a1..an) made while e has registered listeners calls the listeners
\* registered when the call began, once per registration, in registration order,
\* each with exactly a1..an, and then returns true.  At every moment of the call
\* the calls made so far are the first i-1 registrations in order; the call never
\* returns false; when it returns, all of them have been called.
C1_EmitInvokesRegisteredInOrder ==
    /\ \A k \in EmitFrames :
          /\ stack[k].start # <<>>
          /\ Len(stack[k].inv) = stack[k].i - 1
          /\ WalkedInOrder(stack[k].inv, stack[k].start, stack[k].args)
          /\ k < Len(stack) => CalleeOf(k)
    /\ EmitEnded /\ last.start # <<>> =>
          /\ last.ret \in {"true", "threw"}
          /\ WalkedInOrder(last.inv, last.start, last.args)
          /\ last.ret = "true" => Len(last.inv) = Len(last.start)

\* C1 witness: emit(e, 1, 2) has returned true after calling two different
\* listeners.
C1_Witness ==
    /\ Returned("true") /\ last.args = <<1, 2>>
    /\ Len(last.inv) >= 2 /\ last.inv[1].h # last.inv[2].h

\* C2: emit(e) for an e with no registered listeners returns false and calls no
\* listener; an emit that returns normally returns true exactly when it called at
\* least one listener.
C2_EmitFalseWithoutListeners ==
    EmitEnded =>
        /\ last.start = <<>> => last.ret = "false" /\ last.inv = <<>>
        /\ last.ret \in {"true", "false"} => (last.ret = "true" <=> last.inv # <<>>)

\* C3: a listener registered for e (by on or once) while emit(e) is in progress is
\* not called by that emit: the frame calls no handle more often than it was
\* registered when the call began.  The next emit(e) does call it: a call that has
\* just begun walks exactly what is registered now.
C3_AddedDuringEmitWaits ==
    /\ \A k \in EmitFrames : \A h \in stack[k].added :
          Count(Handles(stack[k].inv), h) <= Count(stack[k].start, h)
    /\ \A k \in EmitFrames :
          k = Len(stack) /\ stack[k].inv = <<>> =>
              Iterated(stack[k], events) = Registered(events, stack[k].ev)
    /\ Returned("true") => \A h \in Range(last.start) :
          Count(Handles(last.inv), h) = Count(last.start, h)

\* C3 witness: emit(e) is in progress, a listener it ran registered h, which that
\* emit has not called; a nested emit(e), begun later, has called h.
C3_Witness ==
    \E k \in EmitFrames, m \in EmitFrames :
        /\ k < m /\ stack[k].ev = stack[m].ev
        /\ \E h \in stack[k].added :
              /\ h \notin Range(stack[k].start)
              /\ h \notin Range(Handles(stack[k].inv))
              /\ h \in Range(Handles(stack[m].inv))

\* C4: a listener registered when emit(e) began and removed during the emit by off
\* is still called by that emit: removals do not shorten the walk, and a frame that
\* is through has called every removed handle as often as it was registered.  Later
\* emits do not call it: when an off has ended normally the handle is no longer
\* registered.
C4_RemovedDuringEmitStillCalled ==
    /\ \A k \in EmitFrames :
          /\ Len(Iterated(stack[k], events)) = Len(stack[k].start)
          /\ stack[k].i > Len(stack[k].start) =>
                \A h \in stack[k].removed :
                    Count(Handles(stack[k].inv), h) = Count(stack[k].start, h)
          /\ k = Len(stack) /\ stack[k].i <= Len(stack[k].start) =>
                Iterated(stack[k], events)[stack[k].i] = stack[k].start[stack[k].i]
    /\ last.op = "off" /\ last.ret = "void" =>
          IF last.l = Undefined
          THEN Registered(events, last.ev) = <<>>
          ELSE last.l \notin Range(Registered(events, last.ev))

\* C4 witness: an emit in progress has called a listener that an earlier listener
\* of the same call had already removed.
C4_Witness ==
    \E k \in EmitFrames : \E j \in 1..Len(stack[k].inv) :
        /\ ~stack[k].inv[j].reg
        /\ stack[k].inv[j].h \in stack[k].removed

\* The positions of s that do not hold h, and the sequence of their elements.
Others(s, h) == {k \in 1..Len(s) : s[k] # h}
Without(s, h) ==
    [j \in 1..Cardinality(Others(s, h)) |->
        s[CHOOSE k \in Others(s, h) : Cardinality({m \in Others(s, h) : m <= k}) = j]]

\* C5: off(e, f) removes every occurrence of the handle f from e's array and nothing
\* else: the others stay in their order, other events are untouched; a listener
\* registered afterwards is appended and so called by later emits.
C5_OffRemovesOnlyThatHandle ==
    /\ last.op = "off" /\ last.l # Undefined /\ last.ret = "void" =>
          /\ Registered(events, last.ev) = Without(Registered(last.before, last.ev), last.l)
          /\ \A e \in EventNames \ {last.ev} :
                Registered(events, e) = Registered(last.before, e)
    /\ last.op = "on" /\ last.ret = "void" =>
          Registered(events, last.ev) = Append(Registered(last.before, last.ev), last.l)

\* C5 witness: off(e, f) has removed two occurrences of f and left another
\* listener between them.
C5_Witness ==
    /\ last.op = "off" /\ last.l # Undefined
    /\ Count(Registered(last.before, last.ev), last.l) = 2
    /\ Len(Registered(events, last.ev)) = 1

\* C6: off(e) removes all listeners of e, however many and however registered; an
\* emit(e) that follows it with no registration in between returns false and calls
\* nothing.
C6_OffAllThenEmitFalse ==
    /\ last.op = "off" /\ last.l = Undefined => Registered(events, last.ev) = <<>>
    /\ EmitEnded /\ last.cleared => last.ret = "false" /\ last.inv = <<>>
    /\ \A k \in EmitFrames : ~stack[k].cleared

\* C7: after once(e, f) the first emit(e, x) calls f once with x and returns true; a
\* second emit(e, x) does not call f: no emit begins with a onceWrapper registered
\* that an earlier emit has already entered.
C7_OnceFirstEmitOnly ==
    /\ \A k \in EmitFrames :
          /\ stack[k].stale = {}
          /\ WalkedInOrder(stack[k].inv, stack[k].start, stack[k].args)
    /\ Returned("true") => Len(last.inv) = Len(last.start)

\* C8: when the listener of a onceWrapper calls emit(e) from its body, the wrapper
\* has been removed before that nested emit copies the array: no emit begun inside
\* a running onceWrapper has that wrapper among the listeners it walks.
C8_ReentrantEmitSkipsRunningWrapper ==
    \A k \in EmitFrames : \A m \in 1..(k - 1) :
        stack[m].kind = "onceWrapper" =>
            stack[m].h \notin Range(Iterated(stack[k], events))

\* C9: a onceWrapper runs only once: it is entered at most once over all emits, and
\* once it has been entered and is no longer running (it returned, or its listener
\* threw) it is not registered for its event.
C9_OnceWrapperRunsOnce ==
    \A n \in 1..(nextId - 1) :
        /\ fired[n] <= 1
        /\ fired[n] >= 1 /\ (\A k \in 1..Len(stack) :
                                stack[k].kind = "onceWrapper" => stack[k].h.id # n) =>
              \A e \in DOMAIN events : n \notin WrapperIds(events[e])

\* C10: on does not deduplicate: after k completed on(e, f) calls with no removal of
\* f from e in between, f is registered k times, and an emit(e) that returns has
\* called the handle f exactly k times.
C10_NoDeduplication ==
    /\ \A e \in EventNames, f \in Fns :
          Count(Registered(events, e), Fn(f)) = onCount[e][f]
    /\ \A k \in EmitFrames : \A f \in Fns :
          /\ Count(stack[k].start, Fn(f)) = stack[k].on0[f]
          /\ Count(Handles(stack[k].inv), Fn(f)) <= stack[k].on0[f]
    /\ Returned("true") => \A f \in Fns :
          Count(Handles(last.inv), Fn(f)) = last.on0[f]

\* C10 witness: on(e, f) was called twice and an emit(e) has returned after calling
\* f twice.
C10_Witness ==
    /\ Returned("true")
    /\ \E f \in Fns : last.on0[f] = 2 /\ Count(Handles(last.inv), Fn(f)) = 2

\* C11, as claimed: every key present in the registry maps to a non-empty listener
\* sequence; when off(e, f) removes the last listener of e, the key is dropped.
C11_KeysNonEmpty ==
    \A e \in DOMAIN events : events[e] # <<>>

\* C11, amended: a key present in the registry maps to a sequence that may be empty.
\* off(e, f) keeps the key, also when it removes the last listener; only off(e)
\* drops it; emit treats a key with an empty sequence like an absent one: it returns
\* false, calls nothing, and no walk ever begins on an empty array.
C11_KeysMayHoldEmptyArray ==
    /\ last.op = "off" /\ last.l # Undefined /\ HasOwn(last.before, last.ev) =>
          HasOwn(events, last.ev)
    /\ last.op = "off" /\ last.l = Undefined => ~HasOwn(events, last.ev)
    /\ EmitEnded /\ last.start = <<>> /\ HasOwn(last.before, last.ev) =>
          last.ret = "false" /\ last.inv = <<>>
    /\ \A k \in EmitFrames : stack[k].start # <<>> /\ Iterated(stack[k], events) # <<>>

\* C11 witness: emit(e) has returned false for a key that is present with an empty
\* array, left behind by off(e, f).
C11_Witness ==
    /\ Returned("false")
    /\ HasOwn(last.before, last.ev) /\ HasOwn(events, last.ev)
    /\ events[last.ev] = <<>>

\* C12: on(e, f) always succeeds, for any string e: names of inherited object
\* properties and the empty string are ordinary keys that start with no listeners,
\* and after on(e, f) the listener is the last element of e's sequence.  The same
\* holds of the on inside once(e, f), whose listener is the wrapper of f.
C12_OnAlwaysSucceeds ==
    /\ last.op \in {"on", "once"} =>
          /\ last.ret = "void"
          /\ Registered(events, last.ev) # <<>>
          /\ LET h == Registered(events, last.ev)[Len(Registered(events, last.ev))]
             IN  IF last.op = "on" THEN h = last.l
                 ELSE IsWrapper(h) /\ h.fn = last.l.fn /\ h.ev = last.ev
    /\ EmitEnded /\ last.start = <<>> => last.ret = "false"

\* A step in which a listener's exception ends an emit: the caller is told so, or
\* a user frame gives way to the user code that called emit.
ThrowStep ==
    \/ last' # last /\ last'.op = "emit" /\ last'.ret = "threw"
    \/ /\ stack # <<>> /\ stack[Len(stack)].kind = "fn" /\ Len(stack') < Len(stack)
       /\ IF stack' = <<>> THEN TRUE ELSE stack'[Len(stack')].kind = "fn"

\* C13: when a listener throws during emit(e), the failure reaches the caller of
\* emit: in that step every emit and onceWrapper above the calling user code (or
\* the program) is abandoned, the step calls no listener and changes no
\* registration, and the failed emit had called exactly the listeners of its
\* snapshot up to the one that threw, once each and in order.
C13_ThrowPropagates ==
    [][ ThrowStep =>
          /\ Len(stack') < Len(stack)
          /\ stack' = SubSeq(stack, 1, Len(stack'))
          /\ IF stack' = <<>> THEN TRUE ELSE stack'[Len(stack')].kind = "fn"
          /\ \A k \in (Len(stack') + 1)..(Len(stack) - 1) : stack[k].kind # "fn"
          /\ stack[Len(stack') + 1].kind = "emit"
          /\ last'.inv = stack[Len(stack') + 1].inv
          /\ last'.inv # <<>>
          /\ WalkedInOrder(last'.inv, last'.start, last'.args)
          /\ events' = events /\ fired' = fired
      ]_vars

\* C13 witness: the first of two listeners threw; the program saw emit fail and the
\* second listener was not called.
C13_Witness ==
    /\ Returned("threw") /\ stack = <<>>
    /\ Len(last.start) = 2 /\ Len(last.inv) = 1

\* The onceWrappers in a listener array, in order.
Wrappers(s) == SelectSeq(s, IsWrapper)

\* C14: off(e, f) with the original function does not remove a listener registered
\* by once(e, f): it leaves the wrappers of e as they were.  A wrapper leaves the
\* registry only by off(e) or by its own off after it fired.
C14_OffOriginalKeepsOnceWrapper ==
    /\ last.op = "off" /\ last.l # Undefined /\ ~IsWrapper(last.l) =>
          Wrappers(Registered(events, last.ev)) = Wrappers(Registered(last.before, last.ev))
    /\ last.op \in {"on", "once", "off"} =>
          \A e \in DOMAIN last.before :
              \A w \in Range(Wrappers(last.before[e])) \ Range(Registered(events, e)) :
                  /\ last.op = "off" /\ last.ev = e
                  /\ last.l = Undefined \/ last.l = w

\* C14 witness: off(e, f) has ended and the wrapper that once(e, f) registered is
\* still there.
C14_Witness ==
    /\ last.op = "off" /\ last.l # Undefined /\ ~IsWrapper(last.l)
    /\ \E w \in Range(Registered(events, last.ev)) : IsWrapper(w) /\ Fn(w.fn) = last.l

\* C15: off(e) and off(e, f) for an e that has no registered listeners raise no
\* error and leave every event's listener sequence unchanged.
C15_OffWithoutListenersIsNoOp ==
    last.op = "off" /\ Registered(last.before, last.ev) = <<>> =>
        /\ last.ret = "void"
        /\ \A e \in EventNames : Registered(events, e) = Registered(last.before, e)

\* C16: a name whose sequence off(e, f) emptied behaves like a name never
\* registered.  The reference emitter, which drops such keys, is run on the same
\* calls: every call ends the same way in both (return value or exception), every
\* emit walks the same listeners in the same order in both, and at every moment the
\* two would answer the next emit of any name alike.
C16_SameAsKeyDroppingReference ==
    /\ \A e \in DOMAIN ref : ref[e] # <<>>
    /\ \A e \in EventNames :
          /\ Registered(events, e) = Registered(ref, e)
          /\ emitGuard(events, e) = emitGuard(ref, e)
    /\ \A k \in EmitFrames :
          /\ stack[k].refRet = "iterate"
          /\ stack[k].refStart = Iterated(stack[k], events)
    /\ last.op \in {"on", "once", "off"} => last.refRet = last.ret
    /\ EmitEnded =>
          IF last.ret \in {"true", "threw"}
          THEN last.refRet = "iterate" /\ last.refStart = last.start
          ELSE last.refRet = last.ret

\* C16 witness: emit(e) has returned false where the emitter holds the key with an
\* empty array and the reference does not hold the key.
C16_Witness ==
    /\ Returned("false")
    /\ HasOwn(events, last.ev) /\ ~HasOwn(ref, last.ev)

\* C17: re-entrant emission follows the snapshot rule.  An emit begun by a listener
\* walks what is registered at the moment of that nested call; while anything runs
\* above an emit frame (a listener, a nested emit for the same or another name) the
\* frame makes no call and its walk stays as it is; when the frame is on top again
\* it calls the next listener of its own walk.
C17_NestedEmitFollowsSnapshotRule ==
    [][ /\ \A k \in EmitFrames :
              k < Len(stack) /\ k <= Len(stack') =>
                  /\ stack'[k].kind = "emit"
                  /\ stack'[k].i = stack[k].i
                  /\ stack'[k].inv = stack[k].inv
                  /\ Iterated(stack'[k], events') = Iterated(stack[k], events)
        /\ Len(stack') = Len(stack) + 1 /\ stack'[Len(stack')].kind = "emit" =>
              /\ stack'[Len(stack')].i = 1
              /\ Iterated(stack'[Len(stack')], events')
                     = Registered(events, stack'[Len(stack')].ev)
        /\ \A k \in EmitFrames :
              k = Len(stack) /\ Len(stack') > Len(stack) =>
                  /\ stack'[k].i = stack[k].i + 1
                  /\ stack'[k].inv[stack[k].i].h = stack[k].start[stack[k].i]
                  /\ stack'[k].inv[stack[k].i].h = stack'[k + 1].h
      ]_vars

\* C17 witness: a nested emit has walked all its listeners while the outer emit,
\* which called the listener that made it, still has a listener to call.
C17_Witness ==
    \E k \in EmitFrames, m \in EmitFrames :
        /\ k < m
        /\ stack[m].i > Len(stack[m].listeners) /\ Len(stack[m].inv) >= 1
        /\ stack[k].i <= Len(stack[k].listeners)

\* ------------------------------------------------ listeners that return
\* The program calls emit; listeners register and remove listeners but neither
\* throw nor call emit.  JavaScript runs each call to completion: forEach goes on,
\* a listener that returns does return, the wrapper reaches its off.
CallEmitTop(e, args) == stack = <<>> /\ CallEmit(e, args)

\* The inputs of these runs: two ordinary names are enough for listeners that
\* register on the emitted name and on another one.
QuietNames == {"a", "b"}
QuietArgLists == {<<1, 2>>}

NextQuiet ==
    \/ \E e \in QuietNames, f \in Fns : CallOn(e, f)
    \/ \E e \in QuietNames, l \in {Fn(f) : f \in Fns} \cup {Undefined} : CallOff(e, l)
    \/ \E e \in QuietNames, f \in Fns : CallOnce(e, f)
    \/ \E e \in QuietNames, args \in QuietArgLists : CallEmitTop(e, args)
    \/ Invoke
    \/ EmitReturn
    \/ Return
    \/ OnceWrapperOff

SpecQuiet ==
    /\ Init /\ [][NextQuiet]_vars
    /\ WF_vars(Invoke) /\ WF_vars(EmitReturn) /\ WF_vars(Return) /\ WF_vars(OnceWrapperOff)

\* C18: an emit(e) whose listeners return and do not call emit completes, after at
\* most as many calls as e had listeners when it began, whatever the listeners
\* register meanwhile: the number of calls never exceeds that length, and every emit
\* in progress leads to a state where it has returned true having made exactly
\* that many calls.
C18_EmitTerminates ==
    /\ [](\A k \in EmitFrames :
             /\ Len(stack[k].inv) <= Len(stack[k].start)
             /\ stack[k].i <= Len(stack[k].start) + 1
             /\ Len(Iterated(stack[k], events)) = Len(stack[k].start))
    /\ (stack # <<>>) ~>
           (stack = <<>> /\ Returned("true") /\ Len(last.inv) = Len(last.start))

\* C18 witness: an emit has called all the listeners it began with; each of them
\* registered a further listener for the same event, and none of those was called.
C18_Witness ==
    /\ stack # <<>> /\ stack[Len(stack)].kind = "emit"
    /\ LET fr == stack[Len(stack)] IN
          /\ fr.i > Len(fr.start) /\ Len(fr.inv) = Len(fr.start)
          /\ fr.added # {}
          /\ Len(Registered(events, fr.ev)) >= Len(fr.start) + Len(fr.inv)

\* C19: event names are isolated.  A step changes the listener sequence (or the
\* key) of a name e only when it is an on, once or off call for e, the off of a
\* wrapper registered for e included; emit changes no sequence.  A listener that
\* emit(e) calls was registered for e when the emit began, and a wrapper it calls
\* is a wrapper of e, so its removal acts on e.
C19_EventNamesIsolated ==
    [][ /\ \A e \in EventNames :
              (Registered(events', e) # Registered(events, e)
                   \/ HasOwn(events', e) # HasOwn(events, e)) =>
                  /\ last'.op \in {"on", "once", "off"}
                  /\ last'.ev = e
                  /\ last'.before = events
        /\ \A k \in EmitFrames :
              k = Len(stack) /\ Len(stack') > Len(stack) =>
                  /\ stack'[k + 1].h \in Range(stack[k].start)
                  /\ IsWrapper(stack'[k + 1].h) => stack'[k + 1].h.ev = stack[k].ev
      ]_vars

\* C19 witness: off(e) has removed the listeners of e and another name still has
\* its own.
C19_Witness ==
    /\ last.op = "off" /\ last.l = Undefined
    /\ Registered(last.before, last.ev) # <<>>
    /\ \E e \in EventNames \ {last.ev} :
          Registered(events, e) # <<>> /\ Registered(events, e) = Registered(last.before, e)

\* C20: every once call makes its own wrapper, registered once and for its event
\* only, and the wrapper's off removes that wrapper alone: the other listeners of
\* e, on(e, f) registrations of the same f and wrappers of other once(e, f) calls
\* included, stay in their order.  An emit that has returned true has called each
\* wrapper it began with once and has left none of them registered.
C20_OnceWrapperRemovesOnlyItself ==
    /\ \A e \in DOMAIN events : \A w \in Range(Wrappers(events[e])) :
          w.ev = e /\ Count(events[e], w) = 1
    /\ last.op = "off" /\ IsWrapper(last.l) =>
          /\ Registered(events, last.ev) = Without(Registered(last.before, last.ev), last.l)
          /\ Len(Registered(events, last.ev)) >= Len(Registered(last.before, last.ev)) - 1
    /\ Returned("true") =>
          \A w \in Range(Wrappers(last.start)) :
              /\ Count(Handles(last.inv), w) = 1
              /\ w \notin Range(Registered(events, last.ev))

\* C20 witness: a wrapper of f has removed itself and another registration of the
\* same f, by on or by another once, is still there.
C20_Witness ==
    /\ last.op = "off" /\ IsWrapper(last.l)
    /\ last.l \in Range(Registered(last.before, last.ev))
    /\ \E h \in Range(Registered(events, last.ev)) : h.fn = last.l.fn
====
